---- MODULE Spec2Model ----
(***************************************************************************)
(* Model of the Huffman log compressor in repository_before:              *)
(*   huffman_core.py     HuffmanNode, HuffmanLogic.build_tree,             *)
(*                       HuffmanLogic.generate_codes                       *)
(*   huffman_service.py  HuffmanService.compress                           *)
(* A byte string is a sequence of byte values, a code is a sequence of     *)
(* bits (0/1), Python's None for an optional node is the empty sequence    *)
(* and a present node n is <<n>>.                                          *)
(***************************************************************************)
EXTENDS Integers, Sequences, FiniteSets, TLC

\* ------------------------------------------------------------------ bounds
\* Number of distinct byte values the inputs are drawn from (0 .. NumSyms-1).
NumSyms == 3
\* Longest input handed to compress.
MaxLen == 3
\* Longest input handed to build_tree when its loop is followed step by step.
TreeMaxLen == 4

Symbols == 0 .. (NumSyms - 1)

RECURSIVE SeqsUpTo(_)
SeqsUpTo(n) ==
  IF n = 0 THEN {<<>>}
  ELSE LET shorter == SeqsUpTo(n - 1)
       IN shorter \cup {Append(s, c) : s \in {t \in shorter : Len(t) = n - 1}, c \in Symbols}

Inputs == SeqsUpTo(MaxLen)

TreeInputs == SeqsUpTo(TreeMaxLen)

\* ------------------------------------------------------------ huffman_core
\* The char of an internal node (Python None).
NoChar == -1

\* HuffmanNode.__init__: left and right start as None.
HuffmanNode(char, freq) ==
  [char |-> char, freq |-> freq, left |-> <<>>, right |-> <<>>]

\* The comparison turned round: the node of larger freq counts as the lesser.
LtReversed(a, b) == a.freq > b.freq

\* HuffmanNode.__lt__: nodes compare by freq alone.
Lt(a, b) == a.freq < b.freq

\* Counter: one more occurrence of c. A new key goes to the end, so the items
\* stay in order of first occurrence.
CountOne(items, c) ==
  IF \E i \in 1 .. Len(items) : items[i][1] = c
  THEN [i \in 1 .. Len(items) |->
          IF items[i][1] = c THEN <<c, items[i][2] + 1>> ELSE items[i]]
  ELSE Append(items, <<c, 1>>)

RECURSIVE CountInto(_, _)
CountInto(items, data) ==
  IF data = <<>> THEN items ELSE CountInto(CountOne(items, Head(data)), Tail(data))

\* Counter(data).items(): <<char, count>> pairs in order of first occurrence.
CounterItems(data) == CountInto(<<>>, data)

\* heapq works on 0-based positions; heap[pos] is At(heap, pos).
At(heap, pos) == heap[pos + 1]
Put(heap, pos, item) == [heap EXCEPT ![pos + 1] = item]

\* heapq._siftdown(heap, startpos, pos): move newitem up towards startpos.
RECURSIVE SiftDownLoop(_, _, _, _)
SiftDownLoop(heap, startpos, pos, newitem) ==
  IF pos > startpos
  THEN LET parentpos == (pos - 1) \div 2
           parent    == At(heap, parentpos)
       IN IF Lt(newitem, parent)
          THEN SiftDownLoop(Put(heap, pos, parent), startpos, parentpos, newitem)
          ELSE Put(heap, pos, newitem)
  ELSE Put(heap, pos, newitem)

SiftDown(heap, startpos, pos) == SiftDownLoop(heap, startpos, pos, At(heap, pos))

\* heapq._siftup(heap, pos): bubble the smaller child up to a leaf, then
\* sift newitem down from there.
RECURSIVE SiftUpLoop(_, _, _, _)
SiftUpLoop(heap, startpos, pos, newitem) ==
  LET endpos   == Len(heap)
      leftpos  == 2 * pos + 1
      rightpos == leftpos + 1
  IN IF leftpos < endpos
     THEN LET childpos == IF rightpos < endpos
                             /\ ~Lt(At(heap, leftpos), At(heap, rightpos))
                          THEN rightpos ELSE leftpos
          IN SiftUpLoop(Put(heap, pos, At(heap, childpos)), startpos, childpos, newitem)
     ELSE SiftDown(Put(heap, pos, newitem), startpos, pos)

SiftUp(heap, pos) == SiftUpLoop(heap, pos, pos, At(heap, pos))

\* heapq.heapify(x): for i in reversed(range(n // 2)): _siftup(x, i).
RECURSIVE HeapifyFrom(_, _)
HeapifyFrom(heap, i) ==
  IF i < 0 THEN heap ELSE HeapifyFrom(SiftUp(heap, i), i - 1)

Heapify(heap) == HeapifyFrom(heap, (Len(heap) \div 2) - 1)

\* heapq.heappop(heap): the smallest item and the heap that is left.
HeapPop(heap) ==
  LET n       == Len(heap)
      lastelt == heap[n]
      rest    == SubSeq(heap, 1, n - 1)
  IN IF rest # <<>>
     THEN [item |-> heap[1], heap |-> SiftUp(Put(rest, 0, lastelt), 0)]
     ELSE [item |-> lastelt, heap |-> rest]

\* heapq.heappush(heap, item).
HeapPush(heap, item) ==
  LET h == Append(heap, item) IN SiftDown(h, 0, Len(h) - 1)

\* One pass of build_tree's while loop: pop left, pop right, push the merged
\* node. The result names the two nodes popped and the queue afterwards.
Merge(pq) ==
  LET p1     == HeapPop(pq)
      p2     == HeapPop(p1.heap)
      merged == [char  |-> NoChar,
                 freq  |-> p1.item.freq + p2.item.freq,
                 left  |-> <<p1.item>>,
                 right |-> <<p2.item>>]
  IN [left |-> p1.item, right |-> p2.item, pq |-> HeapPush(p2.heap, merged)]

\* build_tree's while loop: merge the two smallest until one node is left.
RECURSIVE MergeLoop(_)
MergeLoop(pq) ==
  IF Len(pq) > 1 THEN MergeLoop(Merge(pq).pq) ELSE pq

\* build_tree up to the loop: one leaf per Counter item, heapified.
LeafQueue(data) ==
  LET items == CounterItems(data)
  IN Heapify([i \in 1 .. Len(items) |-> HuffmanNode(items[i][1], items[i][2])])

\* return priority_queue[0] if priority_queue else None
RootOf(pq) == IF pq # <<>> THEN <<pq[1]>> ELSE <<>>

\* HuffmanLogic.build_tree(data): <<root>>, or <<>> (None) for empty data.
BuildTree(data) == RootOf(MergeLoop(LeafQueue(data)))

\* build_tree is a pure function of data: its result for every input, computed
\* once.
TreeOf == [data \in Inputs |-> BuildTree(data)]

\* The mapping generate_codes fills: a function from byte values to codes.
EmptyDict == [c \in {} |-> <<>>]

DictSet(codes, key, value) ==
  [c \in (DOMAIN codes) \cup {key} |-> IF c = key THEN value ELSE codes[c]]

\* HuffmanLogic.generate_codes(node, current_code, codes). The result says what
\* the call returns ("None", or "codes": the mapping object it was handed) and
\* what that mapping holds afterwards. The body under `if node.char is not
\* None` holds the two recursive calls and the return; a node without a char
\* falls off the end of the function.
RECURSIVE GenerateCodes(_, _, _)

\* generate_codes with a guard that leaves a byte value alone once the mapping
\* holds a code for it: `if node.char in codes: return`.
GenerateCodesSkipKnown(node, current_code, codes) ==
  IF node = <<>>
  THEN [ret |-> "None", codes |-> codes]
  ELSE LET n == node[1]
       IN IF n.char # NoChar
          THEN IF n.char \in DOMAIN codes
               THEN [ret |-> "None", codes |-> codes]
               ELSE LET c0 == DictSet(codes, n.char, current_code)
                        l  == GenerateCodes(n.left, Append(current_code, 0), c0)
                        r  == GenerateCodes(n.right, Append(current_code, 1), l.codes)
                    IN [ret |-> "codes", codes |-> r.codes]
          ELSE [ret |-> "None", codes |-> codes]

GenerateCodes(node, current_code, codes) ==
  IF node = <<>>
  THEN [ret |-> "None", codes |-> codes]
  ELSE LET n == node[1]
       IN IF n.char # NoChar
          THEN LET c0 == DictSet(codes, n.char, current_code)
                   l  == GenerateCodes(n.left, Append(current_code, 0), c0)
                   r  == GenerateCodes(n.right, Append(current_code, 1), l.codes)
               IN [ret |-> "codes", codes |-> r.codes]
          ELSE [ret |-> "None", codes |-> codes]

\* --------------------------------------------------------- huffman_service
Ok(bytes) == [kind |-> "ok", bytes |-> bytes]
Raise(kind) == [kind |-> kind, bytes |-> <<>>]

\* "".join([codes[char] for char in data])
RECURSIVE Join(_, _)
Join(codes, data) ==
  IF data = <<>> THEN <<>> ELSE codes[Head(data)] \o Join(codes, Tail(data))

\* "0" * padding
RECURSIVE Zeros(_)
Zeros(n) == IF n <= 0 THEN <<>> ELSE <<0>> \o Zeros(n - 1)

\* int(byte, 2) for a chunk of bits, most significant bit first.
RECURSIVE BitsToInt(_)
BitsToInt(bits) ==
  IF bits = <<>> THEN 0
  ELSE 2 * BitsToInt(SubSeq(bits, 1, Len(bits) - 1)) + bits[Len(bits)]

\* for i in range(0, len(encoded_str), 8): b.append(int(encoded_str[i:i+8], 2))
RECURSIVE Pack(_)
Pack(bits) ==
  IF bits = <<>> THEN <<>>
  ELSE LET k == IF Len(bits) < 8 THEN Len(bits) ELSE 8
       IN <<BitsToInt(SubSeq(bits, 1, k))>> \o Pack(SubSeq(bits, k + 1, Len(bits)))

\* The padding taken modulo 8: no bits are added to a bit count that is already
\* a multiple of 8.
PaddingToBoundary(len) == (8 - (len % 8)) % 8

\* padding = 8 - (len(encoded_str) % 8)
Padding(len) == 8 - (len % 8)

\* A call that never reached the bit packer records no bits and no padding.
NoBits == [enc |-> <<>>, pad |-> 0, packed |-> FALSE]

\* compress from build_tree on (lines 14-29). The record holds the outcome
\* (out), the shared mapping after the call (codes), what generate_codes
\* returned (ret, table), the encoded bits before padding and the padding
\* (bits), and which HuffmanLogic methods ran (calls).
CompressBody(data, codes) ==
  LET tree  == TreeOf[data]
      gc    == GenerateCodes(tree, <<>>, codes)
      calls == {"build_tree", "generate_codes"}
      base  == [codes |-> gc.codes, ret |-> gc.ret, calls |-> calls,
                table |-> IF gc.ret = "codes" THEN gc.codes ELSE EmptyDict]
  IN IF data # <<>> /\ gc.ret = "None"
     THEN \* None[char]: 'NoneType' object is not subscriptable
          [out |-> Raise("TypeError"), bits |-> NoBits] @@ base
     ELSE IF \E i \in 1 .. Len(data) : data[i] \notin DOMAIN gc.codes
     THEN [out |-> Raise("KeyError"), bits |-> NoBits] @@ base
     ELSE LET enc == Join(gc.codes, data)
              pad == Padding(Len(enc))
          IN [out  |-> Ok(Pack(enc \o Zeros(pad))),
              bits |-> [enc |-> enc, pad |-> pad, packed |-> TRUE]] @@ base

\* compress without its first two lines, the empty-input return.
CompressNoGuard(data, codes) == CompressBody(data, codes)

\* HuffmanService.compress(data): `if not data: return b""` comes first.
CompressCall(data, codes) ==
  IF data = <<>>
  THEN [out |-> Ok(<<>>), bits |-> NoBits, codes |-> codes, ret |-> "notcalled",
        calls |-> {}, table |-> EmptyDict]
  ELSE CompressBody(data, codes)

\* HuffmanService has no decompress method: svc.decompress raises
\* AttributeError before any byte of its argument is read.
Decompress(data) == Raise("AttributeError")

\* ------------------------------------------------------------------- state
\* codes: the mapping object that generate_codes' default argument `codes={}`
\*        creates once and every call without a codes argument shares.
\* last:  the most recent call: its operation, input and what it produced.
\* build: a build_tree call followed through its loop: where it stands (pc), its
\*        input, the priority queue, the merges made, the queue before the last
\*        merge and the two nodes that merge popped, and the root returned.
VARIABLES codes, last, build

vars == <<codes, last, build>>

NoCall ==
  [op |-> "none", data |-> <<>>, out |-> Ok(<<>>), bits |-> NoBits,
   ret |-> "notcalled", calls |-> {}, table |-> EmptyDict, result |-> Ok(<<>>)]

NoBuild ==
  [pc |-> "idle", data |-> <<>>, pq |-> <<>>, merges |-> 0, before |-> <<>>,
   left |-> <<>>, right |-> <<>>, root |-> <<>>]

Init ==
  /\ codes = EmptyDict
  /\ last = NoCall
  /\ build = NoBuild

\* The record of a call: what it was, its input, and what CompressCall or
\* GenerateCodes computed for it.
CallRecord(op, data, r, result) ==
  [op |-> op, data |-> data, out |-> r.out, bits |-> r.bits, ret |-> r.ret,
   calls |-> r.calls, table |-> r.table, result |-> result]

\* svc.compress(data)
Compress(data) ==
  \E r \in {CompressCall(data, codes)} :
    /\ codes' = r.codes
    /\ last' = CallRecord("compress", data, r, r.out)
    /\ UNCHANGED build

\* svc.decompress(compressed), applied to the bytes the last compress call
\* returned: the second half of the tests' round trip
\* `out = svc.decompress(svc.compress(data))`.
DecompressLast ==
  /\ last.op = "compress"
  /\ last.out.kind = "ok"
  /\ last' = [last EXCEPT !.op = "decompress", !.result = Decompress(last.out.bytes)]
  /\ UNCHANGED <<codes, build>>

Next ==
  \/ \E data \in Inputs : Compress(data)
  \/ DecompressLast

Spec == Init /\ [][Next]_vars

\* build_tree(data) on its own, one loop pass per step, for any input.
InitTree ==
  /\ codes = EmptyDict
  /\ last = NoCall
  /\ \E data \in TreeInputs : build = [NoBuild EXCEPT !.pc = "start", !.data = data]

\* Lines 19-22: count, make the leaves, heapify.
BuildStart ==
  /\ build.pc = "start"
  /\ build' = [build EXCEPT !.pc = "loop", !.pq = LeafQueue(build.data)]
  /\ UNCHANGED <<codes, last>>

\* Lines 25-31: one pass of the while loop.
MergeNodes ==
  /\ build.pc = "loop"
  /\ Len(build.pq) > 1
  /\ \E m \in {Merge(build.pq)} :
       build' = [build EXCEPT !.pq = m.pq, !.merges = @ + 1, !.before = build.pq,
                              !.left = <<m.left>>, !.right = <<m.right>>]
  /\ UNCHANGED <<codes, last>>

\* Line 33: the loop has ended; return the root, or None.
BuildReturn ==
  /\ build.pc = "loop"
  /\ Len(build.pq) <= 1
  /\ build' = [build EXCEPT !.pc = "done", !.root = RootOf(build.pq)]
  /\ UNCHANGED <<codes, last>>

NextTree == BuildStart \/ MergeNodes \/ BuildReturn

SpecTree == InitTree /\ [][NextTree]_vars

\* ------------------------------------------------------------------ claims
\* The byte values that occur in data.
BytesOf(data) == {data[i] : i \in 1 .. Len(data)}

IsPrefix(a, b) == Len(a) <= Len(b) /\ SubSeq(b, 1, Len(a)) = a

\* The <<char, path>> pairs of the leaves under an optional node, the path
\* being the 0 (left) and 1 (right) steps from the root.
RECURSIVE LeafPaths(_, _)
LeafPaths(node, path) ==
  IF node = <<>> THEN {}
  ELSE IF node[1].left = <<>> /\ node[1].right = <<>>
       THEN {<<node[1].char, path>>}
       ELSE LeafPaths(node[1].left, Append(path, 0))
              \cup LeafPaths(node[1].right, Append(path, 1))

\* C1: round-trip law. Whenever decompress has been applied to the output of
\* compress(d), its result is the byte sequence d.
RoundTripLaw ==
  last.op = "decompress" => last.result = Ok(last.data)

\* C2: compress is total. Every compress call, on any input and after any
\* earlier calls, returns a byte string and does not end in an error.
CompressTotal ==
  last.op = "compress" => last.out.kind = "ok"

\* C3: empty-input short circuit. Every step that is a compress call on the
\* empty byte sequence returns b"", runs neither build_tree nor generate_codes
\* and leaves the shared code mapping as it was.
EmptyShortCircuit ==
  [][(last'.op = "compress" /\ last'.data = <<>>)
       => /\ last'.out = Ok(<<>>)
          /\ last'.calls = {}
          /\ codes' = codes]_vars

\* A compress call on the empty input made after earlier calls filled the
\* shared mapping.
EmptyShortCircuitWitness ==
  /\ last.op = "compress"
  /\ last.data = <<>>
  /\ last.out = Ok(<<>>)
  /\ codes # EmptyDict

\* C4: determinism across calls. A compress(d) call made after any sequence of
\* other calls has the outcome (the bytes returned, or the error raised) that
\* compress(d) has as the first call of the process; so any two calls of
\* compress(d) have the same outcome, whatever was called before or between.
Determinism ==
  last.op = "compress" => last.out = CompressCall(last.data, EmptyDict).out

\* A compress call on a non-empty input made when the shared mapping already
\* held an entry written by a call on another input.
DeterminismWitness ==
  /\ last.op = "compress"
  /\ last.data # <<>>
  /\ last.out.kind = "ok"
  /\ \E c \in DOMAIN codes : c \notin BytesOf(last.data)

\* No compress call returns more than one byte, so no input has a compressed
\* output of more than 3 bytes to truncate (the case C5 is about).
CompressedAtMostOneByte ==
  last.out.kind = "ok" => Len(last.out.bytes) <= 1

\* C6: single-symbol edge case. For a non-empty input with exactly one distinct
\* byte value s, the code table compress uses maps s to a code of exactly one
\* bit, so the encoded bits before padding number as many as the input bytes.
SingleSymbolOneBit ==
  (/\ last.op = "compress"
   /\ last.data # <<>>
   /\ Cardinality(BytesOf(last.data)) = 1)
  => /\ last.ret = "codes"
     /\ \A s \in BytesOf(last.data) :
          s \in DOMAIN last.table /\ Len(last.table[s]) = 1
     /\ Len(last.bits.enc) = Len(last.data)

\* C7: padding bound. For every non-empty input that compress packs, the zero
\* bits appended number between 0 and 7, the least number that makes the bit
\* count a multiple of 8, and the output has exactly ceil(L/8) bytes, L being
\* the number of encoded bits.
PaddingBound ==
  (last.op = "compress" /\ last.data # <<>> /\ last.bits.packed)
  => LET L == Len(last.bits.enc)
     IN /\ last.bits.pad \in 0 .. 7
        /\ (L + last.bits.pad) % 8 = 0
        /\ Len(last.out.bytes) = (L + 7) \div 8

\* C8: prefix-free property. In every code table generate_codes returns, no
\* code of one byte value is a prefix of, or equal to, the code of another.
PrefixFree ==
  last.ret = "codes"
  => \A a, b \in DOMAIN last.table :
       a # b => ~IsPrefix(last.table[a], last.table[b])

\* C9: code table coverage. For every non-empty input, generate_codes applied
\* to build_tree's root returns a mapping, and the mapping holds for every byte
\* value of the input the left/right path from the root to its leaf.
CodeTableCoverage ==
  (last.op = "compress" /\ last.data # <<>>)
  => /\ last.ret = "codes"
     /\ \A p \in LeafPaths(TreeOf[last.data], <<>>) :
          p[1] \in DOMAIN last.table /\ last.table[p[1]] = p[2]
     /\ BytesOf(last.data) \subseteq DOMAIN last.table

\* C10: no cross-call contamination. The code mapping a call obtains holds
\* entries only for byte values that occur in that call's own input.
NoCrossCallContamination ==
  last.ret = "codes" => DOMAIN last.table \subseteq BytesOf(last.data)

CountOf(data, c) == Cardinality({i \in 1 .. Len(data) : data[i] = c})

IsLeaf(n) == n.left = <<>> /\ n.right = <<>>

RECURSIVE NumLeaves(_)
NumLeaves(node) ==
  IF node = <<>> THEN 0
  ELSE IF IsLeaf(node[1]) THEN 1
       ELSE NumLeaves(node[1].left) + NumLeaves(node[1].right)

RECURSIVE NumInternal(_)
NumInternal(node) ==
  IF node = <<>> \/ IsLeaf(node[1]) THEN 0
  ELSE 1 + NumInternal(node[1].left) + NumInternal(node[1].right)

\* The <<char, freq>> pairs of the leaves under an optional node.
RECURSIVE LeafWeights(_)
LeafWeights(node) ==
  IF node = <<>> THEN {}
  ELSE IF IsLeaf(node[1]) THEN {<<node[1].char, node[1].freq>>}
       ELSE LeafWeights(node[1].left) \cup LeafWeights(node[1].right)

\* Every leaf under the node holds a symbol; every other node holds none, has
\* two children and weighs what its children weigh together.
RECURSIVE NodesWellFormed(_)
NodesWellFormed(node) ==
  LET n == node[1]
  IN IF IsLeaf(n) THEN n.char # NoChar
     ELSE /\ n.char = NoChar
          /\ n.left # <<>>
          /\ n.right # <<>>
          /\ n.freq = n.left[1].freq + n.right[1].freq
          /\ NodesWellFormed(n.left)
          /\ NodesWellFormed(n.right)

\* The two nodes the last merge popped are nodes of the queue as it was before
\* the merge, and no node it left in the queue weighs less than either.
MergedTwoSmallest ==
  \E i, j \in 1 .. Len(build.before) :
    /\ i # j
    /\ <<build.before[i]>> = build.left
    /\ <<build.before[j]>> = build.right
    /\ \A m \in (1 .. Len(build.before)) \ {i, j} :
         /\ build.before[m].freq >= build.left[1].freq
         /\ build.before[m].freq >= build.right[1].freq

\* C11: tree shape and weights. For a non-empty input with k distinct byte
\* values build_tree's loop ends after exactly k-1 merges with one root; the
\* tree has k leaves, one per distinct byte value weighing its occurrence
\* count, and k-1 internal nodes, each with two children, no symbol and the sum
\* of its children's weights; the root weighs the input length. Every merge
\* takes two nodes whose weights are smallest in the queue at that time.
TreeShapeAndWeights ==
  /\ build.merges > 0 => MergedTwoSmallest
  /\ (build.pc = "done" /\ build.data # <<>>)
     => LET k == Cardinality(BytesOf(build.data))
        IN /\ build.merges = k - 1
           /\ Len(build.pq) = 1
           /\ build.root # <<>>
           /\ NumLeaves(build.root) = k
           /\ NumInternal(build.root) = k - 1
           /\ LeafWeights(build.root)
                = {<<c, CountOf(build.data, c)>> : c \in BytesOf(build.data)}
           /\ NodesWellFormed(build.root)
           /\ build.root[1].freq = Len(build.data)

\* A finished build_tree call on an input with three distinct byte values of
\* unequal counts: two merges, the first with a heavier node left in the queue.
TreeShapeWitness ==
  /\ build.pc = "done"
  /\ Cardinality(BytesOf(build.data)) = 3
  /\ build.merges = 2
  /\ \E c, d \in BytesOf(build.data) : CountOf(build.data, c) < CountOf(build.data, d)
  /\ NumLeaves(build.root) = 3

\* The frequency table of data: the occurrence count of every byte value in it.
FreqTable(data) == [c \in BytesOf(data) |-> CountOf(data, c)]

\* C12: the tree is determined by the frequency table. The tree build_tree
\* returns for an input is the tree it returns for every other input with the
\* same frequency table, whatever the order in which the byte values first
\* occur: the same shape and the same symbol at every leaf position.
TreeDeterminedByFrequencies ==
  build.pc = "done"
  => \A other \in TreeInputs :
       FreqTable(other) = FreqTable(build.data) => BuildTree(other) = build.root

====
